---- MODULE Spec2Model ----
(***************************************************************************)
(* A model of the rust-stats accumulators (Frequencies, MinMax,            *)
(* OnlineStats, Sorted, Unsorted) and of the Commute trait with its        *)
(* implementations for Option<T> and Vec<T> and the merge_all driver.      *)
(*                                                                         *)
(* A client program owns three bindings of type Option<T> (acc) and two    *)
(* Vec<T> (vself, vother); last is its last call and the value that call   *)
(* returned.  T is one of the five accumulator types, fixed for a run      *)
(* (kind).  Every method is a pure operator on accumulator values,         *)
(* translated from its source; every action applies one method to the      *)
(* client's bindings.  log is history: the samples that went into each     *)
(* binding, in order.                                                      *)
(*                                                                         *)
(* f64 values are modelled as exact extended rationals <<n, d>>: a reduced *)
(* fraction with d > 0, or <<1, 0>> = +inf, <<-1, 0>> = -inf, <<0, 0>> =   *)
(* NaN.  Rounding is not modelled; division by zero and NaN propagation    *)
(* are.                                                                    *)
(***************************************************************************)
EXTENDS Integers, Sequences, FiniteSets, Bags, TLC

VARIABLES kind, acc, log, vself, vother, last, panicked

vars == <<kind, acc, log, vself, vother, last, panicked>>

\* Bounds of the model: the largest sample; the samples held by the live
\* bindings together (of Frequencies, MinMax and Sorted; of OnlineStats; of
\* Unsorted); the length of a vector of accumulators.
MaxVal == 2
MaxAdds == 4
MaxOnlineAdds == 3
MaxUnsortedAdds == 3
MaxVecLen == 2

\* The client's bindings a, b, c.
Slots == {1, 2, 3}
Values == 1..MaxVal
Kinds == {"Frequencies", "MinMax", "OnlineStats", "Sorted", "Unsorted"}

\* Option<T>
NoneV == [tag |-> "None"]
Some(v) == [tag |-> "Some", val |-> v]
IsSome(o) == o.tag = "Some"
IsNone(o) == o.tag = "None"

\* A failed task (panic / fail!) as the value of an expression.
PanicV == [tag |-> "Panic"]

-----------------------------------------------------------------------------
(* f64 arithmetic on extended rationals *)

Abs(n) == IF n < 0 THEN -n ELSE n
Sign(n) == IF n < 0 THEN -1 ELSE IF n > 0 THEN 1 ELSE 0

RECURSIVE Gcd(_, _)
Gcd(a, b) == IF b = 0 THEN a ELSE Gcd(b, a % b)

FNorm(n, d) ==
    IF d = 0 THEN <<Sign(n), 0>>
    ELSE LET g == Gcd(Abs(n), Abs(d))
             s == Sign(d)
         IN  <<(s * n) \div g, (s * d) \div g>>

FNaN == <<0, 0>>
FZero == <<0, 1>>
FInt(n) == <<n, 1>>

FMul(x, y) == FNorm(x[1] * y[1], x[2] * y[2])
FAdd(x, y) ==
    IF x[2] = 0 /\ y[2] = 0
    THEN (IF x = y THEN x ELSE FNaN)
    ELSE FNorm(x[1] * y[2] + y[1] * x[2], x[2] * y[2])
FNeg(x) == <<-x[1], x[2]>>
FSub(x, y) == FAdd(x, FNeg(y))
FDiv(x, y) == FNorm(x[1] * y[2], x[2] * y[1])

-----------------------------------------------------------------------------
(* Frequencies<T>: data is a HashMap<T, u64>, a function on the keys present *)

Frequencies_default == [kind |-> "Frequencies", data |-> << >>]

Frequencies_add(self, v) ==
    [self EXCEPT !.data =
        IF v \in DOMAIN self.data
        THEN [self.data EXCEPT ![v] = @ + 1]
        ELSE [k \in DOMAIN self.data \cup {v} |->
                 IF k = v THEN 1 ELSE self.data[k]]]

Frequencies_count(self, v) ==
    IF v \in DOMAIN self.data THEN self.data[v] ELSE 0

Frequencies_len(self) == Cardinality(DOMAIN self.data)

Frequencies_cardinality(self) == Frequencies_len(self)

\* HashMap::extend inserts every (key, count) pair of v, replacing the value
\* stored under a key that is already present.
Frequencies_merge(self, v) ==
    [self EXCEPT !.data =
        [k \in DOMAIN self.data \cup DOMAIN v.data |->
            IF k \in DOMAIN v.data THEN v.data[k] ELSE self.data[k]]]

\* The orders in which the HashMap may iterate over its keys.
IterOrders(self) ==
    LET K == DOMAIN self.data
        n == Cardinality(K)
    IN  {s \in [1..n -> K] : \A i, j \in 1..n : i # j => s[i] # s[j]}

\* sort_by is a stable sort of (key, count) entries on the count: an entry
\* goes behind the entries already placed that do not compare Greater.
RECURSIVE InsertDesc(_, _)
InsertDesc(s, e) ==
    IF s = << >> THEN <<e>>
    ELSE IF Head(s)[2] >= e[2] THEN <<Head(s)>> \o InsertDesc(Tail(s), e)
    ELSE <<e>> \o s

RECURSIVE InsertAsc(_, _)
InsertAsc(s, e) ==
    IF s = << >> THEN <<e>>
    ELSE IF Head(s)[2] <= e[2] THEN <<Head(s)>> \o InsertAsc(Tail(s), e)
    ELSE <<e>> \o s

RECURSIVE SortDesc(_)
SortDesc(s) ==
    IF s = << >> THEN << >>
    ELSE InsertDesc(SortDesc(SubSeq(s, 1, Len(s) - 1)), s[Len(s)])

RECURSIVE SortAsc(_)
SortAsc(s) ==
    IF s = << >> THEN << >>
    ELSE InsertAsc(SortAsc(SubSeq(s, 1, Len(s) - 1)), s[Len(s)])

\* iter is the order in which self.data.iter() yields the keys.
Frequencies_most_frequent(self, iter) ==
    SortDesc([i \in 1..Len(iter) |-> <<iter[i], self.data[iter[i]]>>])

Frequencies_least_frequent(self, iter) ==
    SortAsc([i \in 1..Len(iter) |-> <<iter[i], self.data[iter[i]]>>])

\* Mutant of Frequencies_mode: the top two counts are not compared.
Frequencies_mode_Mutant(self, iter) ==
    LET counts == Frequencies_most_frequent(self, iter)
    IN  IF counts = << >> THEN NoneV ELSE Some(counts[1][1])

Frequencies_mode(self, iter) ==
    LET counts == Frequencies_most_frequent(self, iter)
    IN  IF counts = << >> THEN NoneV
        ELSE IF Len(counts) >= 2 /\ counts[1][2] = counts[2][2] THEN NoneV
        ELSE Some(counts[1][1])

-----------------------------------------------------------------------------
(* MinMax<T> over a totally ordered T (the integers) *)

\* The derived PartialOrd of Option<T>: None is less than every Some.
OptLt(a, b) ==
    IF IsNone(a) THEN IsSome(b)
    ELSE IF IsNone(b) THEN FALSE
    ELSE a.val < b.val

OptGt(a, b) == OptLt(b, a)

MinMax_default == [kind |-> "MinMax", len |-> 0, min |-> NoneV, max |-> NoneV]

MinMax_add(self, sample) ==
    [self EXCEPT
        !.len = @ + 1,
        !.min = IF (IF IsSome(self.min) THEN sample < self.min.val ELSE TRUE)
                THEN Some(sample) ELSE @,
        !.max = IF (IF IsSome(self.max) THEN sample > self.max.val ELSE TRUE)
                THEN Some(sample) ELSE @]

MinMax_min(self) == self.min
MinMax_max(self) == self.max
MinMax_len(self) == self.len

\* Mutant of MinMax_merge: the count goes up by one, as in add.
MinMax_merge_Mutant(self, v) ==
    [self EXCEPT
        !.len = @ + 1,
        !.min = IF OptLt(v.min, self.min) THEN v.min ELSE @,
        !.max = IF OptGt(v.max, self.max) THEN v.max ELSE @]

MinMax_merge(self, v) ==
    [self EXCEPT
        !.len = @ + v.len,
        !.min = IF OptLt(v.min, self.min) THEN v.min ELSE @,
        !.max = IF OptGt(v.max, self.max) THEN v.max ELSE @]

-----------------------------------------------------------------------------
(* OnlineStats *)

OnlineStats_default ==
    [kind |-> "OnlineStats", size |-> 0, mean |-> FZero, variance |-> FZero]

OnlineStats_mean(self) == self.mean
OnlineStats_variance(self) == self.variance
OnlineStats_len(self) == self.size

OnlineStats_add(self, s) ==
    LET sample == FInt(s)
        oldmean == self.mean
        prevq == FMul(self.variance, FInt(self.size))
        size == self.size + 1
        mean == FAdd(self.mean, FDiv(FSub(sample, oldmean), FInt(size)))
    IN  [self EXCEPT
            !.size = size,
            !.mean = mean,
            !.variance =
                FDiv(FAdd(prevq, FMul(FSub(sample, oldmean), FSub(sample, mean))),
                     FInt(size))]

OnlineStats_add_null(self) == [self EXCEPT !.size = @ + 1]

\* Mutant of OnlineStats_merge: the variance is the weighted mean of the two
\* variances, without the term of the squared difference of the means.
OnlineStats_merge_Mutant(self, v) ==
    LET s1 == FInt(self.size)
        s2 == FInt(v.size)
        mean == FDiv(FAdd(FMul(s1, self.mean), FMul(s2, v.mean)), FAdd(s1, s2))
        var == FDiv(FAdd(FMul(s1, self.variance), FMul(s2, v.variance)),
                    FAdd(s1, s2))
    IN  [self EXCEPT !.size = @ + v.size, !.mean = mean, !.variance = var]

OnlineStats_merge(self, v) ==
    LET s1 == FInt(self.size)
        s2 == FInt(v.size)
        meandiffsq == FMul(FSub(self.mean, v.mean), FSub(self.mean, v.mean))
        mean == FDiv(FAdd(FMul(s1, self.mean), FMul(s2, v.mean)), FAdd(s1, s2))
        var == FAdd(FDiv(FAdd(FMul(s1, self.variance), FMul(s2, v.variance)),
                         FAdd(s1, s2)),
                    FDiv(FMul(FMul(s1, s2), meandiffsq),
                         FMul(FAdd(s1, s2), FAdd(s1, s2))))
    IN  [self EXCEPT !.size = @ + v.size, !.mean = mean, !.variance = var]

OnlineStats_clear(self) ==
    [self EXCEPT !.size = 0, !.mean = FZero, !.variance = FZero]

-----------------------------------------------------------------------------
(* Sorted<T>: data is a PriorityQueue<T>, a bag of samples *)

Sorted_default == [kind |-> "Sorted", data |-> EmptyBag]

Sorted_add(self, v) == [self EXCEPT !.data = @ (+) SetToBag({v})]

Sorted_len(self) == BagCardinality(self.data)

SetMin(S) == CHOOSE m \in S : \A x \in S : m <= x

\* PriorityQueue::into_sorted_vec: the samples in ascending order.
RECURSIVE into_sorted_vec(_)
into_sorted_vec(b) ==
    IF b = EmptyBag THEN << >>
    ELSE LET m == SetMin(BagToSet(b))
         IN  <<m>> \o into_sorted_vec(b (-) SetToBag({m}))

\* One iteration of the loop of Sorted::mode.
ModeStep(st, x) ==
    LET a == IF IsSome(st.mode) /\ st.mode.val = x
             THEN [st EXCEPT !.mode_count = @ + 1]
             ELSE IF IsSome(st.next) /\ st.next.val = x
             THEN [st EXCEPT !.next_count = @ + 1]
             ELSE [st EXCEPT !.next = Some(x), !.next_count = 0]
    IN  IF a.next_count > a.mode_count
        THEN [mode |-> a.next, mode_count |-> a.next_count,
              next |-> NoneV, next_count |-> 0]
        ELSE IF a.next_count = a.mode_count
        THEN [a EXCEPT !.mode = NoneV, !.mode_count = 0]
        ELSE a

RECURSIVE ModeWalk(_, _)
ModeWalk(st, s) ==
    IF s = << >> THEN st ELSE ModeWalk(ModeStep(st, Head(s)), Tail(s))

ModeInit == [mode |-> NoneV, next |-> NoneV, mode_count |-> 0, next_count |-> 0]

Sorted_mode(self) ==
    IF Sorted_len(self) = 0 THEN NoneV
    ELSE ModeWalk(ModeInit, into_sorted_vec(self.data)).mode

\* The outcome of the call: Some(the f64 returned), or PanicV, since indexing
\* the empty vector at (0 / 2) - 1 fails the task.
Sorted_median(self) ==
    LET data == into_sorted_vec(self.data)
        n == Len(data)
    IN  IF n % 2 = 0
        THEN IF n = 0 THEN PanicV
             ELSE Some(FDiv(FAdd(FInt(data[n \div 2]), FInt(data[(n \div 2) + 1])),
                            FInt(2)))
        ELSE Some(FInt(data[(n \div 2) + 1]))

\* Mutant of Sorted_merge: a set union, which drops the samples of v that
\* self already holds.
Sorted_merge_Mutant(self, v) ==
    [self EXCEPT !.data =
        [x \in BagToSet(@) \cup BagToSet(v.data) |->
            IF x \in BagToSet(@) THEN CopiesIn(x, @) ELSE CopiesIn(x, v.data)]]

Sorted_merge(self, v) == [self EXCEPT !.data = @ (+) v.data]

Sorted_clear(self) == [self EXCEPT !.data = EmptyBag]

-----------------------------------------------------------------------------
(* Unsorted<T>: data is a Vec<Partial<T>>, sorted the dirty flag *)

\* The total order of the Partial<T> adapter, on samples that are all
\* mutually comparable.
PartialLeq(x, y) == x <= y

RECURSIVE InsertPartial(_, _)
InsertPartial(s, x) ==
    IF s = << >> THEN <<x>>
    ELSE IF PartialLeq(Head(s), x) THEN <<Head(s)>> \o InsertPartial(Tail(s), x)
    ELSE <<x>> \o s

\* Vec::sort under the order of Partial<T>.
RECURSIVE SortPartial(_)
SortPartial(s) ==
    IF s = << >> THEN << >>
    ELSE InsertPartial(SortPartial(SubSeq(s, 1, Len(s) - 1)), s[Len(s)])

\* Vec::dedup: drops every element equal to the one before it.
RECURSIVE Dedup(_)
Dedup(s) ==
    IF Len(s) <= 1 THEN s
    ELSE LET d == Dedup(SubSeq(s, 1, Len(s) - 1))
         IN  IF d[Len(d)] = s[Len(s)] THEN d ELSE Append(d, s[Len(s)])

\* The walk of Sorted::mode on an already sorted sequence.
mode_on_sorted(s) ==
    IF s = << >> THEN NoneV ELSE ModeWalk(ModeInit, s).mode

\* The midpoint of Sorted::median on an already sorted sequence; none if it
\* is empty.
median_on_sorted(s) ==
    LET n == Len(s)
    IN  IF n = 0 THEN NoneV
        ELSE IF n % 2 = 0
        THEN Some(FDiv(FAdd(FInt(s[n \div 2]), FInt(s[(n \div 2) + 1])), FInt(2)))
        ELSE Some(FInt(s[(n \div 2) + 1]))

Unsorted_default == [kind |-> "Unsorted", data |-> << >>, sorted |-> TRUE]

\* Mutant of Unsorted_dirtied: the flag is left as it is.
Unsorted_dirtied_Mutant(self) == self

Unsorted_dirtied(self) == [self EXCEPT !.sorted = FALSE]

Unsorted_add(self, v) ==
    LET d == Unsorted_dirtied(self) IN [d EXCEPT !.data = Append(@, v)]

Unsorted_len(self) == Len(self.data)

\* The flag is read and never set here.
Unsorted_sort(self) ==
    IF ~self.sorted THEN [self EXCEPT !.data = SortPartial(@)] ELSE self

\* The queries take &mut self: each gives the accumulator it leaves and the
\* value it returns.
Unsorted_cardinality(self) ==
    LET s == Unsorted_sort(self)
    IN  [self |-> s, out |-> Len(Dedup(s.data))]

Unsorted_mode(self) ==
    LET s == Unsorted_sort(self)
    IN  [self |-> s, out |-> mode_on_sorted(s.data)]

Unsorted_median(self) ==
    LET s == Unsorted_sort(self)
    IN  [self |-> s, out |-> median_on_sorted(s.data)]

Unsorted_merge(self, v) ==
    LET d == Unsorted_dirtied(self) IN [d EXCEPT !.data = @ \o v.data]

Unsorted_extend(self, it) ==
    LET d == Unsorted_dirtied(self) IN [d EXCEPT !.data = @ \o it]

-----------------------------------------------------------------------------
(* trait Commute and its implementations *)

Default(k) ==
    CASE k = "Frequencies" -> Frequencies_default
      [] k = "MinMax" -> MinMax_default
      [] k = "OnlineStats" -> OnlineStats_default
      [] k = "Sorted" -> Sorted_default
      [] k = "Unsorted" -> Unsorted_default

\* self.add(sample) of the accumulator types.
Add(self, v) ==
    CASE self.kind = "Frequencies" -> Frequencies_add(self, v)
      [] self.kind = "MinMax" -> MinMax_add(self, v)
      [] self.kind = "OnlineStats" -> OnlineStats_add(self, v)
      [] self.kind = "Sorted" -> Sorted_add(self, v)
      [] self.kind = "Unsorted" -> Unsorted_add(self, v)

\* Commute::merge of the accumulator types.
Merge(self, other) ==
    CASE self.kind = "Frequencies" -> Frequencies_merge(self, other)
      [] self.kind = "MinMax" -> MinMax_merge(self, other)
      [] self.kind = "OnlineStats" -> OnlineStats_merge(self, other)
      [] self.kind = "Sorted" -> Sorted_merge(self, other)
      [] self.kind = "Unsorted" -> Unsorted_merge(self, other)

\* FromIterator: new() followed by extend(it).  The other types' extend is a
\* loop of add; Unsorted's marks the buffer dirty and appends.
RECURSIVE FromIter(_, _)
FromIter(k, it) ==
    IF k = "Unsorted" THEN Unsorted_extend(Unsorted_default, it)
    ELSE IF it = << >> THEN Default(k)
    ELSE Add(FromIter(k, SubSeq(it, 1, Len(it) - 1)), it[Len(it)])

\* Mutant of Consume: each item is merged with the operands swapped.
RECURSIVE Consume_Mutant(_, _)
Consume_Mutant(self, other) ==
    IF other = << >> THEN self
    ELSE Consume_Mutant(Merge(Head(other), self), Tail(other))

\* Commute::consume: merges the items of the iterator in the order it
\* yields them.
RECURSIVE Consume(_, _)
Consume(self, other) ==
    IF other = << >> THEN self
    ELSE Consume(Merge(self, Head(other)), Tail(other))

merge_all(it) ==
    IF it = << >> THEN NoneV ELSE Some(Consume(Head(it), Tail(it)))

\* impl Commute for Option<T>
Option_merge(self, other) ==
    IF IsNone(self) THEN other
    ELSE IF IsSome(other) THEN Some(Merge(self.val, other.val))
    ELSE self

\* Mutant of Vec_merge: no length check, so that zip stops at the shorter
\* vector.
Vec_merge_Mutant(self, other) ==
    [panic |-> FALSE,
     self |-> [i \in 1..Len(self) |->
                 IF i <= Len(other) THEN Merge(self[i], other[i]) ELSE self[i]]]

\* impl Commute for Vec<T>: assert_eq! fails the task before the loop.
Vec_merge(self, other) ==
    IF Len(self) # Len(other)
    THEN [panic |-> TRUE, self |-> self]
    ELSE [panic |-> FALSE,
          self |-> [i \in 1..Len(self) |-> Merge(self[i], other[i])]]

-----------------------------------------------------------------------------
(* The client program *)

\* The mark a NULL sample (OnlineStats::add_null) leaves in a binding's log.
Null == 0

Unit == [tag |-> "Unit"]
Call(name, i, r) == [op |-> name, a |-> i, out |-> r]

\* The accumulators of the live bindings, in slot order.
Live(a) ==
    (IF IsSome(a[1]) THEN <<a[1].val>> ELSE << >>)
    \o (IF IsSome(a[2]) THEN <<a[2].val>> ELSE << >>)
    \o (IF IsSome(a[3]) THEN <<a[3].val>> ELSE << >>)

TotalLen(l) == Len(l[1]) + Len(l[2]) + Len(l[3])

AddLimit ==
    CASE kind = "OnlineStats" -> MaxOnlineAdds
      [] kind = "Unsorted" -> MaxUnsortedAdds
      [] OTHER -> MaxAdds

InitClient ==
    /\ acc = [i \in Slots |-> NoneV]
    /\ log = [i \in Slots |-> << >>]
    /\ vself = << >>
    /\ vother = << >>
    /\ last = Call("init", 0, Unit)
    /\ panicked = FALSE

Init == kind \in {"Frequencies", "MinMax", "Sorted"} /\ InitClient
InitOnline == kind = "OnlineStats" /\ InitClient
InitUnsorted == kind = "Unsorted" /\ InitClient
InitVec == kind \in Kinds /\ InitClient
InitFreq == kind = "Frequencies" /\ InitClient

\* let acc_i = T::new()
New(i) ==
    /\ ~panicked
    /\ IsNone(acc[i])
    /\ acc' = [acc EXCEPT ![i] = Some(Default(kind))]
    /\ log' = [log EXCEPT ![i] = << >>]
    /\ last' = Call("new", i, Unit)
    /\ UNCHANGED <<kind, vself, vother, panicked>>

\* acc_i.add(v)
AddSample(i, v) ==
    /\ ~panicked
    /\ IsSome(acc[i])
    /\ TotalLen(log) < AddLimit
    /\ acc' = [acc EXCEPT ![i] = Some(Add(acc[i].val, v))]
    /\ log' = [log EXCEPT ![i] = Append(@, v)]
    /\ last' = Call("add", i, Unit)
    /\ UNCHANGED <<kind, vself, vother, panicked>>

\* acc_i.extend(vec![v, w].into_iter()) of an Unsorted
Extend(i, v, w) ==
    /\ ~panicked
    /\ kind = "Unsorted"
    /\ IsSome(acc[i])
    /\ TotalLen(log) + 2 <= AddLimit
    /\ acc' = [acc EXCEPT ![i] = Some(Unsorted_extend(acc[i].val, <<v, w>>))]
    /\ log' = [log EXCEPT ![i] = @ \o <<v, w>>]
    /\ last' = Call("extend", i, Unit)
    /\ UNCHANGED <<kind, vself, vother, panicked>>

\* acc_i.add_null() of an OnlineStats
AddNull(i) ==
    /\ ~panicked
    /\ kind = "OnlineStats"
    /\ IsSome(acc[i])
    /\ TotalLen(log) < AddLimit
    /\ acc' = [acc EXCEPT ![i] = Some(OnlineStats_add_null(acc[i].val))]
    /\ log' = [log EXCEPT ![i] = Append(@, Null)]
    /\ last' = Call("add_null", i, Unit)
    /\ UNCHANGED <<kind, vself, vother, panicked>>

\* acc_i.clear() of the Mutable accumulators
Clear(i) ==
    /\ ~panicked
    /\ kind \in {"OnlineStats", "Sorted"}
    /\ IsSome(acc[i])
    /\ acc' = [acc EXCEPT ![i] =
                 Some(IF kind = "Sorted" THEN Sorted_clear(acc[i].val)
                      ELSE OnlineStats_clear(acc[i].val))]
    /\ log' = [log EXCEPT ![i] = << >>]
    /\ last' = Call("clear", i, Unit)
    /\ UNCHANGED <<kind, vself, vother, panicked>>

\* acc_i.merge(acc_j) on the accumulators themselves; acc_j is moved.
MergeInto(i, j) ==
    /\ ~panicked
    /\ i # j
    /\ IsSome(acc[i]) /\ IsSome(acc[j])
    /\ acc' = [acc EXCEPT ![i] = Some(Merge(acc[i].val, acc[j].val)),
                          ![j] = NoneV]
    /\ log' = [log EXCEPT ![i] = @ \o log[j], ![j] = << >>]
    /\ last' = Call("merge", i, Unit)
    /\ UNCHANGED <<kind, vself, vother, panicked>>

\* acc_i.merge(acc_j) on the Option<T> bindings; acc_j is moved.
OptionMergeInto(i, j) ==
    /\ ~panicked
    /\ i # j
    /\ acc' = [acc EXCEPT ![i] = Option_merge(acc[i], acc[j]), ![j] = NoneV]
    /\ log' = [log EXCEPT ![i] = @ \o log[j], ![j] = << >>]
    /\ last' = Call("option_merge", i, Unit)
    /\ UNCHANGED <<kind, vself, vother, panicked>>

\* acc_1 = merge_all(<the live accumulators in slot order>)
MergeAll ==
    /\ ~panicked
    /\ acc' = [i \in Slots |-> IF i = 1 THEN merge_all(Live(acc)) ELSE NoneV]
    /\ log' = [i \in Slots |-> IF i = 1 THEN log[1] \o log[2] \o log[3] ELSE << >>]
    /\ last' = Call("merge_all", 1, Unit)
    /\ UNCHANGED <<kind, vself, vother, panicked>>

\* acc_i.mode()
QueryMode(i) ==
    /\ ~panicked
    /\ kind \in {"Sorted", "Unsorted"}
    /\ IsSome(acc[i])
    /\ IF kind = "Sorted"
       THEN /\ last' = Call("mode", i, Sorted_mode(acc[i].val))
            /\ acc' = acc
       ELSE LET r == Unsorted_mode(acc[i].val)
            IN  /\ last' = Call("mode", i, r.out)
                /\ acc' = [acc EXCEPT ![i] = Some(r.self)]
    /\ UNCHANGED <<kind, log, vself, vother, panicked>>

\* acc_i.median()
QueryMedian(i) ==
    /\ ~panicked
    /\ kind \in {"Sorted", "Unsorted"}
    /\ IsSome(acc[i])
    /\ IF kind = "Sorted"
       THEN /\ last' = Call("median", i, Sorted_median(acc[i].val))
            /\ panicked' = (Sorted_median(acc[i].val) = PanicV)
            /\ acc' = acc
       ELSE LET r == Unsorted_median(acc[i].val)
            IN  /\ last' = Call("median", i, r.out)
                /\ panicked' = FALSE
                /\ acc' = [acc EXCEPT ![i] = Some(r.self)]
    /\ UNCHANGED <<kind, log, vself, vother>>

\* acc_i.cardinality() of an Unsorted
QueryCardinality(i) ==
    /\ ~panicked
    /\ kind = "Unsorted"
    /\ IsSome(acc[i])
    /\ LET r == Unsorted_cardinality(acc[i].val)
       IN  /\ last' = Call("cardinality", i, r.out)
           /\ acc' = [acc EXCEPT ![i] = Some(r.self)]
    /\ UNCHANGED <<kind, log, vself, vother, panicked>>

\* acc_i.mode() of a Frequencies; the HashMap iterates in any order.
FrequenciesMode(i) ==
    /\ ~panicked
    /\ kind = "Frequencies"
    /\ IsSome(acc[i])
    /\ \E it \in IterOrders(acc[i].val) :
           last' = Call("mode", i, Frequencies_mode(acc[i].val, it))
    /\ UNCHANGED <<kind, acc, log, vself, vother, panicked>>

\* acc_i.most_frequent() of a Frequencies
MostFrequent(i) ==
    /\ ~panicked
    /\ kind = "Frequencies"
    /\ IsSome(acc[i])
    /\ \E it \in IterOrders(acc[i].val) :
           last' = Call("most_frequent", i, Frequencies_most_frequent(acc[i].val, it))
    /\ UNCHANGED <<kind, acc, log, vself, vother, panicked>>

\* acc_i.least_frequent() of a Frequencies
LeastFrequent(i) ==
    /\ ~panicked
    /\ kind = "Frequencies"
    /\ IsSome(acc[i])
    /\ \E it \in IterOrders(acc[i].val) :
           last' = Call("least_frequent", i, Frequencies_least_frequent(acc[i].val, it))
    /\ UNCHANGED <<kind, acc, log, vself, vother, panicked>>

\* The sample sequences an accumulator pushed onto a vector is built from.
ElemInputs == {<< >>} \cup {<<v>> : v \in Values}

\* The vectors are built by pushes and then merged once.
\* vself.push(it.collect())
PushSelf(it) ==
    /\ ~panicked
    /\ last.op # "vec_merge"
    /\ Len(vself) < MaxVecLen
    /\ vself' = Append(vself, FromIter(kind, it))
    /\ last' = Call("push_self", 0, Unit)
    /\ UNCHANGED <<kind, acc, log, vother, panicked>>

\* vother.push(it.collect())
PushOther(it) ==
    /\ ~panicked
    /\ last.op # "vec_merge"
    /\ Len(vother) < MaxVecLen
    /\ vother' = Append(vother, FromIter(kind, it))
    /\ last' = Call("push_other", 0, Unit)
    /\ UNCHANGED <<kind, acc, log, vself, panicked>>

\* vself.merge(vother); vother is moved.
VecMerge ==
    /\ ~panicked
    /\ last.op # "vec_merge"
    /\ LET r == Vec_merge(vself, vother)
       IN  /\ vself' = r.self
           /\ panicked' = r.panic
    /\ vother' = << >>
    /\ last' = Call("vec_merge", 0, Unit)
    /\ UNCHANGED <<kind, acc, log>>

Next ==
    \/ \E i \in Slots : New(i)
    \/ \E i \in Slots, v \in Values : AddSample(i, v)
    \/ \E i \in Slots : Clear(i)
    \/ \E i, j \in Slots : MergeInto(i, j)
    \/ \E i, j \in Slots : OptionMergeInto(i, j)
    \/ MergeAll
    \/ \E i \in Slots : QueryMode(i)
    \/ \E i \in Slots : QueryMedian(i)

NextOnline ==
    \/ \E i \in Slots : New(i)
    \/ \E i \in Slots, v \in Values : AddSample(i, v)
    \/ \E i \in Slots : AddNull(i)
    \/ \E i \in Slots : Clear(i)
    \/ \E i, j \in Slots : MergeInto(i, j)
    \/ \E i, j \in Slots : OptionMergeInto(i, j)
    \/ MergeAll

NextUnsorted ==
    \/ \E i \in Slots : New(i)
    \/ \E i \in Slots, v \in Values : AddSample(i, v)
    \/ \E i \in Slots, v, w \in Values : Extend(i, v, w)
    \/ \E i, j \in Slots : MergeInto(i, j)
    \/ \E i, j \in Slots : OptionMergeInto(i, j)
    \/ MergeAll
    \/ \E i \in Slots : QueryMode(i)
    \/ \E i \in Slots : QueryMedian(i)
    \/ \E i \in Slots : QueryCardinality(i)

NextVec ==
    \/ \E it \in ElemInputs : PushSelf(it)
    \/ \E it \in ElemInputs : PushOther(it)
    \/ VecMerge

NextOnlineMerge ==
    \/ \E i \in Slots : New(i)
    \/ \E i \in Slots, v \in Values : AddSample(i, v)
    \/ \E i, j \in Slots : MergeInto(i, j)
    \/ MergeAll

NextFreq ==
    \/ \E i \in Slots : New(i)
    \/ \E i \in Slots, v \in Values : AddSample(i, v)
    \/ \E i, j \in Slots : MergeInto(i, j)
    \/ \E i \in Slots : FrequenciesMode(i)
    \/ \E i \in Slots : MostFrequent(i)
    \/ \E i \in Slots : LeastFrequent(i)

\* Frequencies, MinMax and Sorted bindings
Spec == Init /\ [][Next]_vars
\* OnlineStats bindings
SpecOnline == InitOnline /\ [][NextOnline]_vars
\* Unsorted bindings
SpecUnsorted == InitUnsorted /\ [][NextUnsorted]_vars
\* two vectors of accumulators
SpecVec == InitVec /\ [][NextVec]_vars
\* OnlineStats bindings built from numeric samples and merged
SpecOnlineMerge == InitOnline /\ [][NextOnlineMerge]_vars
\* Frequencies bindings and their ranking queries
SpecFreq == InitFreq /\ [][NextFreq]_vars

-----------------------------------------------------------------------------
(* What a client can observe of an accumulator *)

Range(s) == {s[i] : i \in DOMAIN s}
Occurrences(s, v) == Cardinality({i \in DOMAIN s : s[i] = v})
BagOfSeq(s) == [v \in Range(s) |-> Occurrences(s, v)]

Obs(a) ==
    CASE a.kind = "Frequencies" ->
           [len |-> Frequencies_len(a),
            counts |-> [v \in Values |-> Frequencies_count(a, v)],
            mode |-> {Frequencies_mode(a, it) : it \in IterOrders(a)}]
      [] a.kind = "MinMax" ->
           [len |-> MinMax_len(a), min |-> MinMax_min(a), max |-> MinMax_max(a)]
      [] a.kind = "OnlineStats" ->
           [len |-> OnlineStats_len(a), mean |-> OnlineStats_mean(a),
            variance |-> OnlineStats_variance(a)]
      [] a.kind = "Sorted" ->
           [len |-> Sorted_len(a), mode |-> Sorted_mode(a),
            median |-> Sorted_median(a)]
      [] a.kind = "Unsorted" ->
           [len |-> Unsorted_len(a), mode |-> Unsorted_mode(a).out,
            median |-> Unsorted_median(a).out,
            cardinality |-> Unsorted_cardinality(a).out]

\* The value that occurs strictly more often in the bag than every other.
StrictMode(b) ==
    LET S == BagToSet(b)
        W == {v \in S : \A w \in S \ {v} : CopiesIn(v, b) > CopiesIn(w, b)}
    IN  IF W = {} THEN NoneV ELSE Some(CHOOSE v \in W : TRUE)

\* ((x1 merge x2) merge x3) ... merge xn, by recursion on the last item.
RECURSIVE FoldLeft(_)
FoldLeft(s) ==
    IF Len(s) = 1 THEN s[1]
    ELSE Merge(FoldLeft(SubSeq(s, 1, Len(s) - 1)), s[Len(s)])

-----------------------------------------------------------------------------
(* The claims *)

\* C1: Frequencies::merge is a key-wise sum of counts: for all tables a and
\* b and every value v, a.merge(b) leaves a.count(v) equal to the count of v
\* in a before plus the count of v in b.
C1_MergeSumsCounts ==
    kind = "Frequencies" =>
        \A i, j \in Slots :
            (i # j /\ IsSome(acc[i]) /\ IsSome(acc[j])) =>
                \A v \in Values :
                    Frequencies_count(Merge(acc[i].val, acc[j].val), v)
                      = Frequencies_count(acc[i].val, v)
                        + Frequencies_count(acc[j].val, v)

\* C2: in every state reached from MinMax::new() by add and merge, min() and
\* max() are None iff len() = 0; otherwise both are Some, min <= max and each
\* is a sample that was added.
C2_MinMaxInvariant ==
    kind = "MinMax" =>
        \A i \in Slots :
            IsSome(acc[i]) =>
                LET m == acc[i].val
                IN  /\ IsNone(MinMax_min(m)) <=> MinMax_len(m) = 0
                    /\ IsNone(MinMax_max(m)) <=> MinMax_len(m) = 0
                    /\ MinMax_len(m) # 0 =>
                         /\ IsSome(MinMax_min(m)) /\ IsSome(MinMax_max(m))
                         /\ MinMax_min(m).val <= MinMax_max(m).val
                         /\ MinMax_min(m).val \in Range(log[i])
                         /\ MinMax_max(m).val \in Range(log[i])

\* C3: Sorted::mode returns Some(v) exactly when v occurs strictly more often
\* than every other distinct value of the multiset, and None otherwise.
C3_ModeIsStrictMax ==
    (kind = "Sorted" /\ last.op = "mode") =>
        last.out = StrictMode(acc[last.a].val.data)

\* C4: merging an accumulator with a freshly constructed empty one of its
\* kind leaves every observable of it unchanged, and merging it into a fresh
\* empty one gives an accumulator with the same observables.
C4_IdentityLaw ==
    \A i \in Slots :
        IsSome(acc[i]) =>
            /\ Obs(Merge(acc[i].val, Default(kind))) = Obs(acc[i].val)
            /\ Obs(Merge(Default(kind), acc[i].val)) = Obs(acc[i].val)

\* C5: a zero-count OnlineStats has mean 0 and variance 0 after any sequence
\* of new, merge and clear: merging two zero-count accumulators leaves
\* count = 0, mean = 0, variance = 0.
C5_ZeroCountIsZero ==
    \A i \in Slots :
        (IsSome(acc[i]) /\ OnlineStats_len(acc[i].val) = 0) =>
            /\ OnlineStats_mean(acc[i].val) = FZero
            /\ OnlineStats_variance(acc[i].val) = FZero

C7_SortedMergeIsBagUnion ==
    kind = "Sorted" =>
        \A i \in Slots :
            IsSome(acc[i]) =>
                LET a == acc[i].val
                    e == FromIter("Sorted", log[i])
                IN  /\ Sorted_len(a) = Len(log[i])
                    /\ a.data = BagOfSeq(log[i])
                    /\ Sorted_mode(a) = Sorted_mode(e)
                    /\ Sorted_median(a) = Sorted_median(e)

C7_Witness ==
    /\ kind = "Sorted"
    /\ last.op \in {"merge", "option_merge", "merge_all"}
    /\ IsSome(acc[last.a])
    /\ Len(log[last.a]) >= 3
    /\ Cardinality(Range(log[last.a])) < Len(log[last.a])

\* C8: merge_all returns None iff the stream is empty, and for a stream
\* x1..xn Some of the left fold ((x1 merge x2) merge x3) ... merge xn.
C8_MergeAllIsLeftFold ==
    [][last'.op = "merge_all" =>
         LET it == Live(acc)
         IN  /\ IsNone(acc'[1]) <=> it = << >>
             /\ it # << >> => acc'[1] = Some(FoldLeft(it))]_vars

C8_Witness ==
    /\ kind = "Frequencies"
    /\ last.op = "merge_all"
    /\ IsSome(acc[1])
    /\ Len(log[1]) >= 3
    /\ Frequencies_len(acc[1].val) >= 2

\* C9: Vec<T>::merge of vectors of different lengths fails the task with no
\* element of self modified; with equal lengths element i of self is merged
\* with element i of other for every i and the length is unchanged.
C9_VecMergeChecksLength ==
    [][last'.op = "vec_merge" =>
         IF Len(vself) # Len(vother)
         THEN panicked' /\ vself' = vself
         ELSE /\ ~panicked'
              /\ Len(vself') = Len(vself)
              /\ \A i \in 1..Len(vself) : vself'[i] = Merge(vself[i], vother[i])]_vars

C9_Witness ==
    /\ last.op = "vec_merge"
    /\ panicked
    /\ Len(vself) >= 1

\* C10: every query of an Unsorted (median, mode, cardinality) returns the
\* result computed from a full sort of all the samples added or merged into
\* it so far.
C10_QueriesSeeAllSamples ==
    last.op \in {"mode", "median", "cardinality"} =>
        LET all == SortPartial(log[last.a])
        IN  last.out = CASE last.op = "mode" -> mode_on_sorted(all)
                         [] last.op = "median" -> median_on_sorted(all)
                         [] last.op = "cardinality" -> Len(Dedup(all))

C10_Witness ==
    /\ kind = "Unsorted"
    /\ last.op = "median"
    /\ Len(log[last.a]) >= 3
    /\ log[last.a] # SortPartial(log[last.a])


\* C11: Frequencies::mode returns Some(v) exactly when v is the one value of
\* the table whose count is strictly higher than the count of every other
\* value, and None when the table is empty or its two highest counts are
\* equal; most_frequent lists every distinct key once with its count, in
\* non-increasing order of count, and least_frequent in non-decreasing order.
C11_FrequenciesModeIsStrictMax ==
    LET Ranked(t, r, Before(_, _)) ==
            /\ Len(r) = Cardinality(DOMAIN t)
            /\ {r[n][1] : n \in 1..Len(r)} = DOMAIN t
            /\ \A n \in 1..Len(r) : r[n][2] = t[r[n][1]]
            /\ \A n \in 1..(Len(r) - 1) : Before(r[n][2], r[n + 1][2])
        Geq(x, y) == x >= y
        Leq(x, y) == x <= y
    IN  /\ last.op = "mode" =>
              last.out = StrictMode(acc[last.a].val.data)
        /\ last.op = "most_frequent" =>
              Ranked(acc[last.a].val.data, last.out, Geq)
        /\ last.op = "least_frequent" =>
              Ranked(acc[last.a].val.data, last.out, Leq)

C11_Witness ==
    /\ kind = "Frequencies"
    /\ last.op = "mode"
    /\ IsSome(last.out)
    /\ Cardinality(DOMAIN acc[last.a].val.data) >= 2
    /\ Len(log[last.a]) >= 3

\* C12: Sorted::median returns a value for every Sorted reachable from new()
\* by add and merge: for an odd number of samples the middle element of the
\* sorted samples, for an even number the arithmetic mean of the two middle
\* elements; and the query leaves the accumulator's contents unchanged.
C12_MedianAlwaysReturns ==
    [][(kind = "Sorted" /\ last'.op = "median") =>
         LET s == into_sorted_vec(acc[last'.a].val.data)
             n == Len(s)
         IN  /\ IsSome(last'.out)
             /\ (n > 0 /\ n % 2 = 1) => last'.out = Some(FInt(s[(n + 1) \div 2]))
             /\ (n > 0 /\ n % 2 = 0) =>
                   last'.out = Some(FNorm(s[n \div 2] + s[(n \div 2) + 1], 2))
             /\ acc' = acc]_vars

\* C13: for non-empty sequences A and B of numeric samples, an OnlineStats
\* built from A merged with one built from B has the count, mean and variance
\* of the OnlineStats built by adding A and then B one sample at a time; and
\* so has the left fold by merge_all of three such accumulators.
C13_MergeEqualsSequentialAdd ==
    LET Built(i) ==
            /\ IsSome(acc[i])
            /\ log[i] # << >>
            /\ Null \notin Range(log[i])
            /\ acc[i].val = FromIter("OnlineStats", log[i])
    IN  /\ \A i, j \in Slots :
              (i # j /\ Built(i) /\ Built(j)) =>
                  Obs(Merge(acc[i].val, acc[j].val))
                    = Obs(FromIter("OnlineStats", log[i] \o log[j]))
        /\ (\A i \in Slots : Built(i)) =>
              merge_all(Live(acc))
                = Some(FromIter("OnlineStats", log[1] \o log[2] \o log[3]))

C13_Witness ==
    /\ kind = "OnlineStats"
    /\ \E i, j \in Slots :
          /\ i # j
          /\ IsSome(acc[i]) /\ IsSome(acc[j])
          /\ Len(log[i]) >= 2 /\ Len(log[j]) >= 1
          /\ Null \notin Range(log[i]) \cup Range(log[j])
          /\ acc[i].val = FromIter("OnlineStats", log[i])
          /\ acc[j].val = FromIter("OnlineStats", log[j])
          /\ OnlineStats_variance(acc[i].val) # FZero
          /\ OnlineStats_mean(acc[i].val) # OnlineStats_mean(acc[j].val)

\* C14: Unsorted is a two-state Clean/Dirty machine: every add, extend or
\* merge leaves it Dirty (sorted flag false), and every query (median, mode,
\* cardinality) leaves it Clean (sorted flag true, the buffer in sorted
\* order), so that a second query with no add or merge in between does not
\* sort again; a buffer whose flag is true is in sorted order.
C14_CleanDirtyMachine ==
    /\ last.op \in {"add", "extend", "merge"} =>
          ~acc[last.a].val.sorted
    /\ last.op \in {"median", "mode", "cardinality"} =>
          /\ acc[last.a].val.sorted
          /\ acc[last.a].val.data = SortPartial(acc[last.a].val.data)
    /\ \A i \in Slots :
          (IsSome(acc[i]) /\ acc[i].val.sorted) =>
              acc[i].val.data = SortPartial(acc[i].val.data)

====
